---------------------------- MODULE Spec2Model ----------------------------
(***************************************************************************)
(* Cost analytics service (src/Main_Go_Service.go).                        *)
(*                                                                         *)
(* The service keeps no state of its own: every operation runs a SQL query *)
(* against the billing export table and post-processes the rows in Go.     *)
(* The model's state is the table, the current date, and what the last     *)
(* call observed and returned.  The SQL of each query is modelled by what  *)
(* it computes (WHERE / GROUP BY / HAVING / JOIN / ORDER BY), the Go loop  *)
(* that reads the rows by what it assigns.                                 *)
(*                                                                         *)
(* Numbers.  Costs are integers (currency units); every derived quantity   *)
(* (mean, z-score, slope, prediction) is an exact rational, so a boundary  *)
(* such as zScore = 3 is hit exactly.  float64 rounding is not modelled.   *)
(* A z-score is carried as its square (it is a square root of a rational). *)
(***************************************************************************)
EXTENDS Integers, Sequences, FiniteSets, Bags, TLC

VARIABLES
    table,      \* the billing export: a bag of rows
    today,      \* CURRENT_DATE() of the warehouse, a day number
    call,       \* the last operation called, with its arguments
    trends,     \* []CostTrend: GetCostTrends' result (for ForecastCosts: its local `trends`)
    anomalies,  \* []Anomaly returned by DetectAnomalies
    forecasts,  \* []CostTrend returned by ForecastCosts
    err,        \* the error returned by the last call ("" is nil)
    previous,   \* what a client kept of an earlier GetCostTrends call: its
                \* argument and its result
    sheet,      \* the spreadsheet: the values of its Trends and Anomalies tabs
    response    \* the HTTP response written by handleUpdateSheets

vars == <<table, today, call, trends, anomalies, forecasts, err, previous,
          sheet, response>>

---------------------------------------------------------------------------
(* Bounds of the model *)

Today == 10           \* the day number of CURRENT_DATE()
TicksPerDay == 2      \* usage_start_time values per calendar day
RowCost == 1          \* the cost of a row of a free-form table
MaxRows == 2          \* rows of a free-form table
MaxLevel == 1         \* daily net costs of a series lie in -MaxLevel..MaxLevel
MaxEval == 3          \* largest evaluation-day cost of a history table
MaxHorizon == 3       \* largest forecast horizon asked for
ShortWindow == 7      \* the small `days` argument tried beside the handlers' 30
MaxUnread == 1        \* rows left unread when the row iterator fails
MaxThreshold == 3     \* largest whole z-score threshold asked for
MaxStart == 7         \* largest first total of a progression table
MaxStep == 2          \* largest daily step of a progression table
FmtUnits == 10        \* stands for the 10^6 of "%f": the printed threshold is a
                      \* multiple of 1/FmtUnits (squares of 10^6 exceed the integers)

(* Program constants *)

MinSamples == 7       \* HAVING COUNT(*) >= 7
MinTrendPoints == 7   \* len(trends) < 7
HistoryDays == 30     \* GetCostTrends(30), DetectAnomalies(30, ...)

Projects == {"p1", "p2"}
Services == {"s1", "s2"}

---------------------------------------------------------------------------
(* Arithmetic helpers *)

Abs(x) == IF x < 0 THEN -x ELSE x

RECURSIVE GCD(_, _)
GCD(a, b) == IF b = 0 THEN a ELSE GCD(b, a % b)

\* The rational n/d (d # 0) in lowest terms with a positive denominator.
Rat(n, d) ==
    LET g == GCD(Abs(n), Abs(d))
        s == IF d < 0 THEN -1 ELSE 1
    IN  [num |-> s * (n \div g), den |-> s * (d \div g)]

RatLess(a, b) == a.num * b.den < b.num * a.den
RatAdd(a, b) == Rat(a.num * b.den + b.num * a.den, a.den * b.den)
RatSub(a, b) == Rat(a.num * b.den - b.num * a.den, a.den * b.den)
RatMul(a, b) == Rat(a.num * b.num, a.den * b.den)
RatDiv(a, b) == Rat(a.num * b.den, a.den * b.num)
RatOf(n) == Rat(n, 1)

\* Values that are no number are written with a zero denominator: SQL's NULL,
\* and float64's infinities and NaN.
Null == [num |-> 0, den |-> 0]
PosInf == [num |-> 1, den |-> 0]
NegInf == [num |-> -1, den |-> 0]
NaN == [num |-> 0, den |-> 0]
IsNumber(x) == x.den # 0

\* a / b in float64: a division by zero gives an infinity, 0/0 gives NaN.
FloatDiv(a, b) ==
    IF b.num # 0 THEN RatDiv(a, b)
    ELSE IF a.num > 0 THEN PosInf
    ELSE IF a.num < 0 THEN NegInf
    ELSE NaN

RECURSIVE SumSeq(_)
SumSeq(s) == IF s = <<>> THEN 0 ELSE Head(s) + SumSeq(Tail(s))

\* The sum of f[x] over the set S.
RECURSIVE SumOver(_, _)
SumOver(S, f) ==
    IF S = {} THEN 0
    ELSE LET x == CHOOSE y \in S : TRUE IN f[x] + SumOver(S \ {x}, f)

\* The sum of the values of a Go map (a function on its keys).
MapSum(m) == SumOver(DOMAIN m, m)

\* The elements of S as a sequence ascending by the key k[x] (keys distinct).
RECURSIVE SortBy(_, _)
SortBy(S, k) ==
    IF S = {} THEN <<>>
    ELSE LET x == CHOOSE y \in S : \A z \in S : k[y] <= k[z]
         IN  <<x>> \o SortBy(S \ {x}, k)

---------------------------------------------------------------------------
(* The billing export table *)

\* One row: usage_start_time is a tick, credits the array of credit amounts.
Row(p, s, t, c, cr) ==
    [project_id |-> p, service_name |-> s, usage_start_time |-> t,
     cost |-> c, credits |-> cr]

\* DATE(usage_start_time)
DateOf(t) == t \div TicksPerDay

\* cost + IFNULL((SELECT SUM(amount) FROM UNNEST(credits)), 0)
CreditSum(r) == SumSeq(r.credits)
NetCost(r) == r.cost + CreditSum(r)

\* Free-form tables: every bag of at most MaxRows rows that start yesterday
\* at its first tick, yesterday at its last tick with a credit, or today, each
\* of the cost RowCost.
FreeRows ==
    { Row(p, s, a[1], RowCost, a[2]) :
        p \in Projects, s \in Services,
        a \in { <<(Today - 1) * TicksPerDay, <<>>>>,
                <<Today * TicksPerDay - 1, <<-1>>>>,
                <<Today * TicksPerDay, <<>>>> } }

\* The bag holding each row of the sequence rs once per occurrence.
RECURSIVE BagOf(_)
BagOf(rs) == IF rs = <<>> THEN EmptyBag ELSE SetToBag({Head(rs)}) (+) BagOf(Tail(rs))

RECURSIVE RowSeqs(_)
RowSeqs(n) ==
    IF n = 0 THEN {<<>>}
    ELSE LET shorter == RowSeqs(n - 1)
         IN  shorter \cup { Append(rs, r) : rs \in {x \in shorter : Len(x) = n - 1},
                                            r \in FreeRows }

FreeTables == { BagOf(rs) : rs \in RowSeqs(MaxRows) }

\* One row of net cost v for the pair (p, s) on date d: a negative net cost is
\* a credit larger than the cost.
NetRow(p, s, d, v) ==
    IF v >= 0 THEN Row(p, s, d * TicksPerDay, v, <<>>)
    ELSE Row(p, s, d * TicksPerDay, 0, <<v>>)

\* The rows giving the pair (p, s) the daily net costs ys on the consecutive
\* dates that end at `last`.
SeriesRows(p, s, ys, last) ==
    { NetRow(p, s, last - Len(ys) + i, ys[i]) : i \in 1..Len(ys) }

RECURSIVE SeqsOver(_, _)
SeqsOver(V, n) ==
    IF n = 0 THEN {<<>>}
    ELSE { Append(ys, v) : ys \in SeqsOver(V, n - 1), v \in V }

Levels == (-MaxLevel)..MaxLevel

\* The ascending sequences of n levels.
RECURSIVE AscendingSeqs(_)
AscendingSeqs(n) ==
    IF n = 0 THEN {<<>>}
    ELSE UNION { { Append(ys, v) : v \in { w \in Levels : ys = <<>> \/ ys[Len(ys)] <= w } } :
                 ys \in AscendingSeqs(n - 1) }

\* The daily costs -1, -1, -1, 0, 1, 1, 1 (for MinSamples = 7): mean 0 and
\* sample standard deviation 1.
UnitHistory ==
    [i \in 1..MinSamples |->
        IF 2 * i < MinSamples + 1 THEN -1 ELSE IF 2 * i > MinSamples + 1 THEN 1 ELSE 0]

\* History tables (anomaly detection reads the history of a pair as a multiset,
\* so each multiset is laid out ascending): ("p1","s1") has MinSamples - 1 or
\* MinSamples daily costs on the dates before yesterday and, optionally, a cost
\* yesterday; beside a cost yesterday, ("p2","s1") is absent or has the unit
\* history and the cost MaxEval yesterday.  SplitDay is a cost yesterday made
\* of two rows, with a row of today after it.
SplitDay ==
    { NetRow("p1", "s1", Today - 1, MaxEval - 1),
      Row("p1", "s1", Today * TicksPerDay - 1, RowCost, <<>>),
      Row("p1", "s1", Today * TicksPerDay, RowCost, <<>>) }

EvaluationDays ==
    {{}, SplitDay} \cup
    { {NetRow("p1", "s1", Today - 1, v)} \cup other :
        v \in 0..MaxEval,
        other \in { {}, SeriesRows("p2", "s1", UnitHistory, Today - 2)
                        \cup {NetRow("p2", "s1", Today - 1, MaxEval)} } }

HistoryTables ==
    { SetToBag(SeriesRows("p1", "s1", ys, Today - 2) \cup ev) :
        ys \in AscendingSeqs(MinSamples - 1) \cup AscendingSeqs(MinSamples),
        ev \in EvaluationDays }

\* Series tables (forecasting reads the daily totals in date order): one pair
\* with MinTrendPoints - 1 or MinTrendPoints consecutive days ending yesterday,
\* every daily cost but the last at -MaxLevel or MaxLevel, the last at any level.
SeriesTables ==
    { SetToBag(SeriesRows("p1", "s2", Append(ys, v), Today - 1)) :
        ys \in SeqsOver({-MaxLevel, MaxLevel}, MinTrendPoints - 2)
               \cup SeqsOver({-MaxLevel, MaxLevel}, MinTrendPoints - 1),
        v \in Levels }

\* Progression tables: one pair with MinTrendPoints or MinTrendPoints + 1
\* consecutive days ending yesterday, the daily costs going from 0 or MaxStart
\* by a constant step.
ProgressionTables ==
    { SetToBag(SeriesRows("p1", "s2", [i \in 1..n |-> a + (i - 1) * d], Today - 1)) :
        n \in {MinTrendPoints, MinTrendPoints + 1},
        a \in {0, MaxStart},
        d \in (-MaxStep)..MaxStep }

Tables == FreeTables \cup HistoryTables \cup SeriesTables \cup ProgressionTables

Rows(T) == BagToSet(T)

---------------------------------------------------------------------------
(* GetCostTrends: the query *)

\* WITH daily_costs: the rows of the window grouped by (date, project, service).
\* The row of the group G of key k: SUM(cost) as total_cost,
\* SUM(IFNULL((SELECT SUM(amount) FROM UNNEST(credits)), 0)) as total_credits.
DailyCost(k, G) ==
    [usage_date |-> k[1], project_id |-> k[2], service_name |-> k[3],
     total_cost |-> SumOver(G, [r \in G |-> CopiesIn(r, table) * r.cost]),
     total_credits |-> SumOver(G, [r \in G |-> CopiesIn(r, table) * CreditSum(r)])]

DailyCosts(days) ==
    LET W == { r \in Rows(table) : DateOf(r.usage_start_time) >= today - days }
        KeyOf(r) == <<DateOf(r.usage_start_time), r.project_id, r.service_name>>
        K == { KeyOf(r) : r \in W }
    IN  { DailyCost(k, { r \in W : KeyOf(r) = k }) : k \in K }

ProjectIndex == [p1 |-> 0, p2 |-> 1]
ServiceIndex == [s1 |-> 0, s2 |-> 1]
PairIndex(g) == 2 * ProjectIndex[g.project_id] + ServiceIndex[g.service_name]

\* ARRAY_AGG has no ORDER BY: the order of the elements of an array is any.
\* What the Go loop keeps of an array is, per key, its last element, so an
\* order is named by the element that comes last for each key: `last` maps a
\* service to the project whose element comes last (a project to the service).
ArrayOrders == [services : [Services -> Projects], projects : [Projects -> Services]]

\* An order matters for a key only where some date has two elements with that
\* key: OrdersOf(D) holds one order of each class of orders that give the same
\* maps over the daily_costs D (elsewhere the first project, or service, is named).
ContestedService(D, s) ==
    \E g \in D, h \in D :
        /\ g.usage_date = h.usage_date
        /\ g.service_name = s /\ h.service_name = s
        /\ g.project_id # h.project_id

ContestedProject(D, p) ==
    \E g \in D, h \in D :
        /\ g.usage_date = h.usage_date
        /\ g.project_id = p /\ h.project_id = p
        /\ g.service_name # h.service_name

OrdersOf(D) ==
    LET plainServices == { s \in Services : ~ContestedService(D, s) }
        plainProjects == { p \in Projects : ~ContestedProject(D, p) }
    IN  { o \in ArrayOrders :
            /\ \A s \in plainServices : o.services[s] = "p1"
            /\ \A p \in plainProjects : o.projects[p] = "s1" }

\* ARRAY_AGG(STRUCT(service_name, total_cost + total_credits)) of the group G.
ServiceCostsArray(G, last) ==
    LET key == [g \in G |->
                  (IF g.project_id = last[g.service_name] THEN 4 ELSE 0) + PairIndex(g)]
        ordered == SortBy(G, key)
    IN  [i \in 1..Len(ordered) |->
            [service_name |-> ordered[i].service_name,
             f1_ |-> ordered[i].total_cost + ordered[i].total_credits]]

\* ARRAY_AGG(STRUCT(project_id, total_cost + total_credits)) of the group G.
ProjectCostsArray(G, last) ==
    LET key == [g \in G |->
                  (IF g.service_name = last[g.project_id] THEN 4 ELSE 0) + PairIndex(g)]
        ordered == SortBy(G, key)
    IN  [i \in 1..Len(ordered) |->
            [project_id |-> ordered[i].project_id,
             f1_ |-> ordered[i].total_cost + ordered[i].total_credits]]

\* aggregated_costs over the daily_costs D: one row per usage_date, ORDER BY
\* usage_date.
AggregatedCost(d, G, order) ==
    [usage_date |-> d,
     daily_total |-> SumOver(G, [g \in G |-> g.total_cost + g.total_credits]),
     service_costs |-> ServiceCostsArray(G, order.services),
     project_costs |-> ProjectCostsArray(G, order.projects)]

RECURSIVE AggregatedRows(_, _, _, _)
AggregatedRows(out, dates, D, order) ==
    IF dates = <<>> THEN out
    ELSE AggregatedRows(
            Append(out, AggregatedCost(Head(dates),
                                       { g \in D : g.usage_date = Head(dates) }, order)),
            Tail(dates), D, order)

AggregatedCosts(D, order) ==
    LET dates == { g.usage_date : g \in D }
    IN  AggregatedRows(<<>>, SortBy(dates, [d \in dates |-> d]), D, order)

(* GetCostTrends: the Go loop *)

EmptyMap == [k \in {} |-> 0]

\* serviceCosts[sc.ServiceName] = sc.Cost, for each element in array order.
RECURSIVE ServiceCostMap(_, _)
ServiceCostMap(arr, m) ==
    IF arr = <<>> THEN m
    ELSE ServiceCostMap(Tail(arr), (Head(arr).service_name :> Head(arr).f1_) @@ m)

\* projectCosts[pc.ProjectID] = pc.Cost, for each element in array order.
RECURSIVE ProjectCostMap(_, _)
ProjectCostMap(arr, m) ==
    IF arr = <<>> THEN m
    ELSE ProjectCostMap(Tail(arr), (Head(arr).project_id :> Head(arr).f1_) @@ m)

CostTrend(row) ==
    [Date |-> row.usage_date,
     TotalCost |-> row.daily_total,
     ServiceCost |-> ServiceCostMap(row.service_costs, EmptyMap),
     ProjectCost |-> ProjectCostMap(row.project_costs, EmptyMap)]

\* The rows read before it.Next returns an error: all of them when the error is
\* iterator.Done, the first Len - unread of them when the iterator fails.
RowsRead(rows, unread) ==
    SubSeq(rows, 1, IF unread >= Len(rows) THEN 0 ELSE Len(rows) - unread)

\* The loop of GetCostTrends over the rows of the query: they are read until
\* it.Next returns an error, and each row read is appended.
RECURSIVE AppendTrends(_, _)
AppendTrends(out, rows) ==
    IF rows = <<>> THEN out
    ELSE AppendTrends(Append(out, CostTrend(Head(rows))), Tail(rows))

ReadTrends(rows, unread) == AppendTrends(<<>>, RowsRead(rows, unread))

\* What can go wrong with a query: q.Read fails, or the row iterator fails with
\* `unread` rows left (0: it ends with iterator.Done).
QueryFates == {[queryFails |-> TRUE, unread |-> 0]}
              \cup {[queryFails |-> FALSE, unread |-> u] : u \in 0..MaxUnread}

\* The query ran and every row of its result was read.
Complete(fate) == ~fate.queryFails /\ fate.unread = 0

\* GetCostTrends returning an error when the row iterator fails.
GetCostTrendsStrict(rows, fate) ==
    IF fate.queryFails \/ fate.unread > 0 THEN <<<<>>, "failed to execute query">>
    ELSE <<ReadTrends(rows, fate.unread), "">>

\* GetCostTrends(days), `rows` the rows of its query.  The result is
\* <<trends, err>>.
GetCostTrends(rows, fate) ==
    IF fate.queryFails THEN <<<<>>, "failed to execute query">>
    ELSE <<ReadTrends(rows, fate.unread), "">>

---------------------------------------------------------------------------
(* DetectAnomalies: the query *)

\* Rows grouped by (date, project, service) with
\* SUM(cost + IFNULL((SELECT SUM(amount) FROM UNNEST(credits)), 0)) as daily_cost.
GroupDaily(W) ==
    LET KeyOf(r) == <<DateOf(r.usage_start_time), r.project_id, r.service_name>>
        K == { KeyOf(r) : r \in W }
        G(k) == { r \in W : KeyOf(r) = k }
    IN  { [usage_date |-> k[1], project_id |-> k[2], service_name |-> k[3],
           daily_cost |-> SumOver(G(k), [r \in G(k) |-> CopiesIn(r, table) * NetCost(r)])] :
          k \in K }

\* WITH historical_data: the rows of the last `days` days.
HistoricalData(days) ==
    GroupDaily({ r \in Rows(table) : DateOf(r.usage_start_time) >= today - days })

\* recent_costs: the rows of yesterday.
RecentCosts ==
    GroupDaily({ r \in Rows(table) : DateOf(r.usage_start_time) = today - 1 })

\* STDDEV(daily_cost), the sample standard deviation, as its square; NULL for
\* a single sample.
StddevSq(n, sum, sumsq) ==
    IF n < 2 THEN Null ELSE Rat(n * sumsq - sum * sum, n * (n - 1))

\* Stats with HAVING COUNT(*) >= 6.
StatsLooseGate(H) ==
    LET past == { h \in H : h.usage_date < today - 1 }
        K == { <<h.project_id, h.service_name>> : h \in past }
        G(k) == { h \in past : <<h.project_id, h.service_name>> = k }
        n(k) == Cardinality(G(k))
        sum(k) == SumOver(G(k), [h \in G(k) |-> h.daily_cost])
        sumsq(k) == SumOver(G(k), [h \in G(k) |-> h.daily_cost * h.daily_cost])
    IN  { [project_id |-> k[1], service_name |-> k[2],
           avg_cost |-> Rat(sum(k), n(k)),
           stddev_sq |-> StddevSq(n(k), sum(k), sumsq(k)),
           data_points |-> n(k)] :
          k \in { x \in K : n(x) >= MinSamples - 1 } }

\* Stats with WHERE usage_date <= DATE_SUB(CURRENT_DATE(), INTERVAL 1 DAY).
StatsWithEvaluationDay(H) ==
    LET past == { h \in H : h.usage_date <= today - 1 }
        K == { <<h.project_id, h.service_name>> : h \in past }
        G(k) == { h \in past : <<h.project_id, h.service_name>> = k }
        n(k) == Cardinality(G(k))
        sum(k) == SumOver(G(k), [h \in G(k) |-> h.daily_cost])
        sumsq(k) == SumOver(G(k), [h \in G(k) |-> h.daily_cost * h.daily_cost])
    IN  { [project_id |-> k[1], service_name |-> k[2],
           avg_cost |-> Rat(sum(k), n(k)),
           stddev_sq |-> StddevSq(n(k), sum(k), sumsq(k)),
           data_points |-> n(k)] :
          k \in { x \in K : n(x) >= MinSamples } }

\* stats: per (project, service), over the days before yesterday, HAVING
\* COUNT(*) >= 7.
Stats(H) ==
    LET past == { h \in H : h.usage_date < today - 1 }
        K == { <<h.project_id, h.service_name>> : h \in past }
        G(k) == { h \in past : <<h.project_id, h.service_name>> = k }
        n(k) == Cardinality(G(k))
        sum(k) == SumOver(G(k), [h \in G(k) |-> h.daily_cost])
        sumsq(k) == SumOver(G(k), [h \in G(k) |-> h.daily_cost * h.daily_cost])
    IN  { [project_id |-> k[1], service_name |-> k[2],
           avg_cost |-> Rat(sum(k), n(k)),
           stddev_sq |-> StddevSq(n(k), sum(k), sumsq(k)),
           data_points |-> n(k)] :
          k \in { x \in K : n(x) >= MinSamples } }

\* ZScoreSq without NULLIF, the division by zero giving an infinity.
ZScoreSqNoNullIf(actual, st) ==
    IF st.stddev_sq = Null THEN Null
    ELSE LET d == RatSub(RatOf(actual), st.avg_cost)
         IN  FloatDiv(RatMul(d, d), st.stddev_sq)

\* ABS(r.daily_cost - s.avg_cost) / NULLIF(s.stddev_cost, 0), as its square;
\* NULL when the standard deviation is NULL or zero.
ZScoreSq(actual, st) ==
    IF st.stddev_sq = Null \/ st.stddev_sq.num = 0 THEN Null
    ELSE LET d == RatSub(RatOf(actual), st.avg_cost)
         IN  RatDiv(RatMul(d, d), st.stddev_sq)

\* fmt.Sprintf("%f", threshold): the threshold t >= 0 rounded to the nearest
\* multiple of 1/FmtUnits, a tie to the even one.
FormatF(t) ==
    LET scaled == t.num * FmtUnits
        q == scaled \div t.den
        r == scaled % t.den
        up == 2 * r > t.den \/ (2 * r = t.den /\ q % 2 = 1)
    IN  Rat(IF up THEN q + 1 ELSE q, FmtUnits)

\* z > t for a z-score z >= 0 given by its square and a threshold t >= 0; a
\* NULL z-score compares as NULL, which WHERE takes as false.
ZScoreAbove(zsq, t) ==
    /\ zsq # Null
    /\ zsq.num * t.den * t.den > t.num * t.num * zsq.den

\* FROM recent_costs r JOIN stats s ON r.project_id = s.project_id AND
\* r.service_name = s.service_name, with the columns of the SELECT list.
JoinedRows(days) ==
    LET S == Stats(HistoricalData(days))
    IN  { [usage_date |-> x[1].usage_date, project_id |-> x[1].project_id,
           service_name |-> x[1].service_name, actual_cost |-> x[1].daily_cost,
           expected_cost |-> x[2].avg_cost, stddev_sq |-> x[2].stddev_sq,
           z_score_sq |-> ZScoreSq(x[1].daily_cost, x[2])] :
          x \in { y \in RecentCosts \X S :
                    /\ y[1].project_id = y[2].project_id
                    /\ y[1].service_name = y[2].service_name } }

\* WHERE ABS(...) / NULLIF(...) > %f, the threshold as Sprintf prints it: the
\* rows of the result, before ORDER BY.
AnomalyRows(joined, threshold) ==
    { row \in joined : ZScoreAbove(row.z_score_sq, FormatF(threshold)) }

\* ORDER BY z_score DESC: every order of the rows in which no row precedes one
\* of a larger z-score (rows of equal z-score come in any order).
RECURSIVE Orderings(_)
Orderings(R) ==
    IF R = {} THEN {<<>>}
    ELSE UNION { { <<x>> \o rest : rest \in Orderings(R \ {x}) } :
                 x \in { y \in R : \A z \in R :
                            ~RatLess(y.z_score_sq, z.z_score_sq) } }

(* DetectAnomalies: the Go loop *)

\* ((row.ActualCost - row.ExpectedCost) / row.ExpectedCost) * 100 in float64:
\* a division by zero gives an infinity, 0/0 gives NaN.
DeviationPct(actual, expected) ==
    LET q == FloatDiv(RatSub(RatOf(actual), expected), expected)
    IN  IF IsNumber(q) THEN RatMul(q, RatOf(100)) ELSE q

\* Severity with row.ZScore >= 3 for High.
SeverityInclusive(zsq) ==
    IF ~ZScoreAbove([num |-> zsq.den * 9, den |-> zsq.num], RatOf(1)) THEN "High"
    ELSE IF ZScoreAbove(zsq, RatOf(2)) THEN "Medium"
    ELSE "Low"

\* if row.ZScore > 3 { High } else if row.ZScore > 2 { Medium } else { Low }
Severity(zsq) ==
    IF ZScoreAbove(zsq, RatOf(3)) THEN "High"
    ELSE IF ZScoreAbove(zsq, RatOf(2)) THEN "Medium"
    ELSE "Low"

Anomaly(row) ==
    [Date |-> row.usage_date,
     ProjectID |-> row.project_id,
     ServiceName |-> row.service_name,
     ActualCost |-> row.actual_cost,
     ExpectedCost |-> row.expected_cost,
     DeviationPct |-> DeviationPct(row.actual_cost, row.expected_cost),
     Severity |-> Severity(row.z_score_sq)]

\* DetectAnomalies(days, threshold) with the result rows in the order `ordered`.
\* The result is <<anomalies, err>>.
RECURSIVE AppendAnomalies(_, _)
AppendAnomalies(out, rows) ==
    IF rows = <<>> THEN out
    ELSE AppendAnomalies(Append(out, Anomaly(Head(rows))), Tail(rows))

DetectAnomalies(ordered, fate) ==
    IF fate.queryFails THEN <<<<>>, "failed to execute anomaly query">>
    ELSE <<AppendAnomalies(<<>>, RowsRead(ordered, fate.unread)), "">>

\* The thresholds asked for: the whole numbers up to MaxThreshold, and the
\* numbers a quarter of a printed unit below them.
ThresholdArgs ==
    { Rat(4 * FmtUnits * b - e, 4 * FmtUnits) : b \in 1..MaxThreshold, e \in {0, 1} }

---------------------------------------------------------------------------
(* ForecastCosts *)

\* RegressionSums with x the one-based index.
RECURSIVE RegressionSumsOneBased(_, _)
RegressionSumsOneBased(ts, i) ==
    IF i > Len(ts) THEN [sumX |-> 0, sumY |-> 0, sumXY |-> 0, sumX2 |-> 0]
    ELSE LET rest == RegressionSumsOneBased(ts, i + 1)
             x == i
             y == ts[i].TotalCost
         IN  [sumX |-> rest.sumX + x, sumY |-> rest.sumY + y,
              sumXY |-> rest.sumXY + x * y, sumX2 |-> rest.sumX2 + x * x]

\* The sums of the regression loop over the trends, x the zero-based index.
RECURSIVE RegressionSums(_, _)
RegressionSums(ts, i) ==
    IF i > Len(ts) THEN [sumX |-> 0, sumY |-> 0, sumXY |-> 0, sumX2 |-> 0]
    ELSE LET rest == RegressionSums(ts, i + 1)
             x == i - 1
             y == ts[i].TotalCost
         IN  [sumX |-> rest.sumX + x, sumY |-> rest.sumY + y,
              sumXY |-> rest.sumXY + x * y, sumX2 |-> rest.sumX2 + x * x]

\* slope := (n*sumXY - sumX*sumY) / (n*sumX2 - sumX*sumX)
Slope(n, m) ==
    FloatDiv(RatOf(n * m.sumXY - m.sumX * m.sumY), RatOf(n * m.sumX2 - m.sumX * m.sumX))

\* intercept := (sumY - slope*sumX) / n
Intercept(n, m, slope) ==
    FloatDiv(RatSub(RatOf(m.sumY), RatMul(slope, RatOf(m.sumX))), RatOf(n))

\* predictedCost at index x: slope*x + intercept, and 0.9 times the last
\* historical total when that is negative.
PredictedCost(slope, intercept, x, lastTotal) ==
    LET predicted == RatAdd(RatMul(slope, RatOf(x)), intercept)
    IN  IF predicted.num < 0 THEN RatMul(RatOf(lastTotal), Rat(9, 10))
        ELSE predicted

\* AddDate counting the first forecast day as day 0.
AddDateOffByOne(date, i) == date + i - 1

\* lastDate.AddDate(0, 0, i)
AddDate(date, i) == date + i

\* for i := 1; i <= days; i++ { forecasts = append(forecasts, ...) }
RECURSIVE AppendForecasts(_, _, _, _, _, _)
AppendForecasts(out, i, days, slope, intercept, ts) ==
    IF i > days THEN out
    ELSE AppendForecasts(
            Append(out,
                   [Date |-> AddDate(ts[Len(ts)].Date, i),
                    TotalCost |-> PredictedCost(slope, intercept, Len(ts) + i - 1,
                                                ts[Len(ts)].TotalCost),
                    ServiceCost |-> EmptyMap,
                    ProjectCost |-> EmptyMap]),
            i + 1, days, slope, intercept, ts)

\* ForecastCosts with len(trends) < 6.
ForecastCostsLooseCheck(days, fetched) ==
    LET ts == fetched[1]
        n == Len(ts)
        m == RegressionSums(ts, 1)
        slope == Slope(n, m)
    IN  IF fetched[2] # "" THEN <<<<>>, fetched[2]>>
        ELSE IF Len(ts) < MinTrendPoints - 1
        THEN <<<<>>, "insufficient data for forecasting">>
        ELSE <<AppendForecasts(<<>>, 1, days, slope, Intercept(n, m, slope), ts), "">>

\* ForecastCosts(days), given what its call of GetCostTrends(30) returned.
\* The result is <<forecasts, err>>.
ForecastCosts(days, fetched) ==
    LET ts == fetched[1]
        n == Len(ts)
        m == RegressionSums(ts, 1)
        slope == Slope(n, m)
    IN  IF fetched[2] # "" THEN <<<<>>, fetched[2]>>
        ELSE IF Len(ts) < MinTrendPoints
        THEN <<<<>>, "insufficient data for forecasting">>
        ELSE <<AppendForecasts(<<>>, 1, days, slope, Intercept(n, m, slope), ts), "">>

\* The horizons asked for.
HorizonArgs == 0..MaxHorizon

---------------------------------------------------------------------------
(* The state machine *)

DaysArgs == {ShortWindow, HistoryDays}

Idle == [op |-> "none"]

\* The client has kept no result.
NoResult == [days |-> 0, trends |-> <<>>]

\* A spreadsheet nothing has been written to, and no response written.
BlankSheet == [Trends |-> <<>>, Anomalies |-> <<>>]
NoResponse == [status |-> 0, body |-> ""]

Init ==
    /\ table \in Tables
    /\ today = Today
    /\ call = Idle
    /\ trends = <<>>
    /\ anomalies = <<>>
    /\ forecasts = <<>>
    /\ err = ""
    /\ previous = NoResult
    /\ sheet = BlankSheet
    /\ response = NoResponse

\* GET /api/trends?days=N, or any call of GetCostTrends(days).
CallGetCostTrends ==
    /\ call = Idle
    /\ \E days \in DaysArgs :
       \E D \in {DailyCosts(days)} :
       \E order \in OrdersOf(D) :
       \E rows \in {AggregatedCosts(D, order)} :
       \E fate \in QueryFates :
       \E res \in {GetCostTrends(rows, fate)} :
            /\ call' = [op |-> "GetCostTrends", days |-> days,
                        failed |-> fate.queryFails, complete |-> Complete(fate),
                        unread |-> fate.unread]
            /\ trends' = res[1]
            /\ err' = res[2]
            /\ anomalies' = <<>>
            /\ forecasts' = <<>>
            /\ UNCHANGED <<table, today, previous, sheet, response>>

\* GET /api/anomalies?threshold=T, or any call of DetectAnomalies(days, threshold).
CallDetectAnomalies ==
    /\ call = Idle
    /\ \E days \in DaysArgs :
       \E joined \in {JoinedRows(days)} :
       \E threshold \in ThresholdArgs :
       \E ordered \in Orderings(AnomalyRows(joined, threshold)), fate \in QueryFates :
       \E res \in {DetectAnomalies(ordered, fate)} :
            /\ call' = [op |-> "DetectAnomalies", days |-> days, threshold |-> threshold,
                        failed |-> fate.queryFails, complete |-> Complete(fate),
                        unread |-> fate.unread]
            /\ anomalies' = res[1]
            /\ err' = res[2]
            /\ trends' = <<>>
            /\ forecasts' = <<>>
            /\ UNCHANGED <<table, today, previous, sheet, response>>

\* GET /api/forecast?days=N, or any call of ForecastCosts(days).
CallForecastCosts ==
    /\ call = Idle
    /\ \E D \in {DailyCosts(HistoryDays)} :
       \E order \in OrdersOf(D) :
       \E rows \in {AggregatedCosts(D, order)} :
       \E fate \in QueryFates :
       \E fetched \in {GetCostTrends(rows, fate)} :
       \E days \in HorizonArgs :
       \E res \in {ForecastCosts(days, fetched)} :
            /\ call' = [op |-> "ForecastCosts", days |-> days,
                        failed |-> fate.queryFails, complete |-> Complete(fate),
                        unread |-> fate.unread]
            /\ trends' = fetched[1]
            /\ forecasts' = res[1]
            /\ err' = res[2]
            /\ anomalies' = <<>>
            /\ UNCHANGED <<table, today, previous, sheet, response>>

\* The call has returned and its result has been delivered: the service holds
\* nothing of it.
Return ==
    /\ call # Idle
    /\ call' = Idle
    /\ trends' = <<>>
    /\ anomalies' = <<>>
    /\ forecasts' = <<>>
    /\ err' = ""
    /\ UNCHANGED <<table, today, previous, sheet, response>>

Next == CallGetCostTrends \/ CallDetectAnomalies \/ CallForecastCosts \/ Return

Spec == Init /\ [][Next]_vars

\* A client that calls GetCostTrends again and again and keeps, of a call whose
\* rows were all read, the argument and the result.
ReturnKept ==
    /\ call # Idle
    /\ call' = Idle
    /\ previous' = IF call.complete THEN [days |-> call.days, trends |-> trends]
                   ELSE previous
    /\ trends' = <<>>
    /\ anomalies' = <<>>
    /\ forecasts' = <<>>
    /\ err' = ""
    /\ UNCHANGED <<table, today, sheet, response>>

NextRepeated == CallGetCostTrends \/ ReturnKept

SpecRepeated == Init /\ [][NextRepeated]_vars

---------------------------------------------------------------------------
(* UpdateGoogleSheets: the values written *)

\* The orders in which `range` may visit the keys of a Go map.
RECURSIVE RangeOrders(_)
RangeOrders(S) ==
    IF S = {} THEN {<<>>}
    ELSE UNION { { <<k>> \o rest : rest \in RangeOrders(S \ {k}) } : k \in S }

\* for service, cost := range trend.ServiceCost { if cost > topCost { ... } },
\* the keys visited in the order `keys`.  The result is <<topService, topCost>>.
RECURSIVE TopService(_, _, _)
TopService(keys, m, top) ==
    IF keys = <<>> THEN top
    ELSE TopService(Tail(keys), m,
                    IF m[Head(keys)] > top[2] THEN <<Head(keys), m[Head(keys)]>>
                    ELSE top)

\* Date.Format("2006-01-02"): the text of the day.
FormatDate(d) == ToString(d)

\* The rows a trend can give, one per result of the range loop.
TrendRow(trend) ==
    { <<FormatDate(trend.Date), trend.TotalCost, top[1], top[2]>> :
        top \in { TopService(keys, trend.ServiceCost, <<"", 0>>) :
                    keys \in RangeOrders(DOMAIN trend.ServiceCost) } }

RECURSIVE TrendRows(_)
TrendRows(ts) ==
    IF ts = <<>> THEN {<<>>}
    ELSE { <<row>> \o rest : row \in TrendRow(Head(ts)), rest \in TrendRows(Tail(ts)) }

TrendsHeader == <<"Date", "Total Cost", "Top Service", "Top Service Cost">>

\* trendValues: the header and a row per trend.
TrendValues(ts) == { <<TrendsHeader>> \o rows : rows \in TrendRows(ts) }

\* The text of k tenths of a percent, `negative` the sign of the number printed.
PctText(k, negative) ==
    (IF negative THEN "-" ELSE "") \o ToString(Abs(k) \div 10) \o "."
        \o ToString(Abs(k) % 10) \o "%"

\* fmt.Sprintf("%.1f%%", x): x rounded to one decimal.  A number halfway
\* between two tenths is a float64 exactly only as a multiple of 1/4, and is
\* then rounded to the even tenth; otherwise the float64 nearest to it lies on
\* either side, and it is rounded to either tenth.
FormatPct(x) ==
    IF x.den = 0
    THEN {IF x.num > 0 THEN "+Inf%" ELSE IF x.num < 0 THEN "-Inf%" ELSE "NaN%"}
    ELSE LET n == 10 * Abs(x.num)
             below == n \div x.den
             rem == n % x.den
             tenths == IF 2 * rem < x.den THEN {below}
                       ELSE IF 2 * rem > x.den THEN {below + 1}
                       ELSE IF x.den = 4 THEN {below + (below % 2)}
                       ELSE {below, below + 1}
         IN  { PctText(k, x.num < 0) : k \in tenths }

\* The rows an anomaly can give.  The Description column is not modelled.
AnomalyRow(a) ==
    { <<FormatDate(a.Date), a.ProjectID, a.ServiceName, a.ActualCost,
        a.ExpectedCost, pct, a.Severity>> : pct \in FormatPct(a.DeviationPct) }

RECURSIVE AnomalyRowsOf(_)
AnomalyRowsOf(as) ==
    IF as = <<>> THEN {<<>>}
    ELSE { <<row>> \o rest : row \in AnomalyRow(Head(as)),
                             rest \in AnomalyRowsOf(Tail(as)) }

AnomaliesHeader ==
    <<"Date", "Project", "Service", "Actual Cost", "Expected Cost", "Deviation %",
      "Severity">>

\* anomalyValues: the header and a row per anomaly.
AnomalyValues(as) == { <<AnomaliesHeader>> \o rows : rows \in AnomalyRowsOf(as) }

---------------------------------------------------------------------------
(* POST /api/update-sheets: handleUpdateSheets, a step per call it makes of *)
(* the warehouse and of the Sheets API                                      *)

SpreadsheetIds == {"", "dashboard"}

\* The threshold handleUpdateSheets passes to DetectAnomalies.
SheetsThreshold == RatOf(2)

\* A call made of the warehouse or of the Sheets API, and whether it returned
\* without an error.
Op(name, ok) == [op |-> name, ok |-> ok]

\* handleUpdateSheets without the check of spreadsheet_id.
UpdateSheetsRequestUnchecked ==
    /\ call = Idle
    /\ \E id \in SpreadsheetIds :
          /\ call' = [op |-> "UpdateSheets", id |-> id, pc |-> "trends",
                      ops |-> <<>>, before |-> sheet]
          /\ response' = NoResponse
    /\ UNCHANGED <<table, today, trends, anomalies, forecasts, err, previous, sheet>>

\* The request arrives: spreadsheet_id is read and checked.  The handler's
\* record keeps the calls it has made (ops) and the spreadsheet as it was when
\* the request arrived (before).
UpdateSheetsRequest ==
    /\ call = Idle
    /\ \E id \in SpreadsheetIds :
          IF id = ""
          THEN /\ call' = [op |-> "UpdateSheets", id |-> id, pc |-> "done",
                           ops |-> <<>>, before |-> sheet]
               /\ response' = [status |-> 400, body |-> "spreadsheet_id parameter required"]
          ELSE /\ call' = [op |-> "UpdateSheets", id |-> id, pc |-> "trends",
                           ops |-> <<>>, before |-> sheet]
               /\ response' = NoResponse
    /\ UNCHANGED <<table, today, trends, anomalies, forecasts, err, previous, sheet>>

\* trends, err := ca.GetCostTrends(30)
UpdateSheetsTrends ==
    /\ call.op = "UpdateSheets" /\ call.pc = "trends"
    /\ \E D \in {DailyCosts(HistoryDays)} :
       \E order \in OrdersOf(D) :
       \E rows \in {AggregatedCosts(D, order)} :
       \E fate \in QueryFates :
       \E res \in {GetCostTrends(rows, fate)} :
            /\ trends' = res[1]
            /\ err' = res[2]
            /\ IF res[2] # ""
               THEN /\ response' = [status |-> 500, body |-> res[2]]
                    /\ call' = [call EXCEPT !.pc = "done",
                                            !.ops = Append(@, Op("trends query", res[2] = ""))]
               ELSE /\ response' = response
                    /\ call' = [call EXCEPT !.pc = "anomalies",
                                            !.ops = Append(@, Op("trends query", res[2] = ""))]
    /\ UNCHANGED <<table, today, anomalies, forecasts, previous, sheet>>

\* anomalies, err := ca.DetectAnomalies(30, 2.0)
UpdateSheetsAnomalies ==
    /\ call.op = "UpdateSheets" /\ call.pc = "anomalies"
    /\ \E joined \in {JoinedRows(HistoryDays)} :
       \E ordered \in Orderings(AnomalyRows(joined, SheetsThreshold)), fate \in QueryFates :
       \E res \in {DetectAnomalies(ordered, fate)} :
            /\ anomalies' = res[1]
            /\ err' = res[2]
            /\ IF res[2] # ""
               THEN /\ response' = [status |-> 500, body |-> res[2]]
                    /\ call' = [call EXCEPT !.pc = "done",
                                            !.ops = Append(@, Op("anomaly query", res[2] = ""))]
               ELSE /\ response' = response
                    /\ call' = [call EXCEPT !.pc = "Trends!A1",
                                            !.ops = Append(@, Op("anomaly query", res[2] = ""))]
    /\ UNCHANGED <<table, today, trends, forecasts, previous, sheet>>

\* UpdateGoogleSheets going on to the Anomalies update whatever the Trends
\* update returned.
UpdateTrendsSheetIgnoringError ==
    /\ call.op = "UpdateSheets" /\ call.pc = "Trends!A1"
    /\ \E values \in TrendValues(trends), ok \in BOOLEAN, written \in BOOLEAN :
            /\ ok => written
            /\ sheet' = IF written THEN [sheet EXCEPT !.Trends = values] ELSE sheet
            /\ err' = ""
            /\ response' = response
            /\ call' = [call EXCEPT !.pc = "Anomalies!A1",
                                    !.ops = Append(@, Op("Trends!A1", ok))]
    /\ UNCHANGED <<table, today, trends, anomalies, forecasts, previous>>

\* UpdateGoogleSheets: Values.Update(spreadsheetID, "Trends!A1", trendsVR).  A
\* call that returns an error may or may not have written the range.
UpdateTrendsSheet ==
    /\ call.op = "UpdateSheets" /\ call.pc = "Trends!A1"
    /\ \E values \in TrendValues(trends), ok \in BOOLEAN, written \in BOOLEAN :
            /\ ok => written
            /\ sheet' = IF written THEN [sheet EXCEPT !.Trends = values] ELSE sheet
            /\ IF ok
               THEN /\ err' = ""
                    /\ response' = response
                    /\ call' = [call EXCEPT !.pc = "Anomalies!A1",
                                            !.ops = Append(@, Op("Trends!A1", ok))]
               ELSE /\ err' = "failed to update trends sheet"
                    /\ response' = [status |-> 500, body |-> "failed to update trends sheet"]
                    /\ call' = [call EXCEPT !.pc = "done",
                                            !.ops = Append(@, Op("Trends!A1", ok))]
    /\ UNCHANGED <<table, today, trends, anomalies, forecasts, previous>>

\* UpdateGoogleSheets: Values.Update(spreadsheetID, "Anomalies!A1", anomaliesVR),
\* and on success the handler's 200 response.
UpdateAnomaliesSheet ==
    /\ call.op = "UpdateSheets" /\ call.pc = "Anomalies!A1"
    /\ \E values \in AnomalyValues(anomalies), ok \in BOOLEAN, written \in BOOLEAN :
            /\ ok => written
            /\ sheet' = IF written THEN [sheet EXCEPT !.Anomalies = values] ELSE sheet
            /\ IF ok
               THEN /\ err' = ""
                    /\ response' = [status |-> 200, body |-> "updated"]
               ELSE /\ err' = "failed to update anomalies sheet"
                    /\ response' = [status |-> 500,
                                    body |-> "failed to update anomalies sheet"]
            /\ call' = [call EXCEPT !.pc = "done", !.ops = Append(@, Op("Anomalies!A1", ok))]
    /\ UNCHANGED <<table, today, trends, anomalies, forecasts, previous>>

\* The response has been sent: the handler holds nothing any more.  The
\* spreadsheet keeps what was written to it.
UpdateSheetsReturn ==
    /\ call.op = "UpdateSheets" /\ call.pc = "done"
    /\ call' = Idle
    /\ trends' = <<>>
    /\ anomalies' = <<>>
    /\ err' = ""
    /\ response' = NoResponse
    /\ UNCHANGED <<table, today, forecasts, previous, sheet>>

NextSheets ==
    \/ UpdateSheetsRequest
    \/ UpdateSheetsTrends
    \/ UpdateSheetsAnomalies
    \/ UpdateTrendsSheet
    \/ UpdateAnomaliesSheet
    \/ UpdateSheetsReturn

\* The billing exports the dashboard is refreshed from: the free-form tables,
\* and the history tables of the unit history.
SheetTables ==
    FreeTables \cup
    { SetToBag(SeriesRows("p1", "s1", UnitHistory, Today - 2) \cup ev) :
        ev \in EvaluationDays }

InitSheets == Init /\ table \in SheetTables

SpecSheets == InitSheets /\ [][NextSheets]_vars

---------------------------------------------------------------------------
(* What the table holds, read off the rows themselves: the claims are stated *)
(* against these, not against the queries.                                   *)

\* The rows of the pair (p, s) that start on date d.
PairRows(p, s, d) ==
    { r \in Rows(table) :
        /\ r.project_id = p /\ r.service_name = s
        /\ DateOf(r.usage_start_time) = d }

\* The net cost (cost plus credits) of a set R of rows of the table.
NetOf(R) == SumOver(R, [r \in R |-> CopiesIn(r, table) * (r.cost + SumSeq(r.credits))])

DailyNet(p, s, d) == NetOf(PairRows(p, s, d))

\* The dates of the table within the last `days` days.
WindowDates(days) ==
    { DateOf(r.usage_start_time) : r \in { x \in Rows(table) :
                                          DateOf(x.usage_start_time) >= today - days } }

\* The historical daily samples of a pair: its dates before the evaluation day
\* (yesterday) within the window.
SampleDates(p, s, days) ==
    { d \in { DateOf(r.usage_start_time) :
                r \in { x \in Rows(table) : x.project_id = p /\ x.service_name = s } } :
        d >= today - days /\ d < today - 1 }

\* The samples of a pair summed up: their number, their sum, the sum of their
\* squares, and the evaluation day's cost of the pair.
SamplesOver(p, s, D) ==
    [n |-> Cardinality(D),
     sum |-> SumOver(D, [d \in D |-> DailyNet(p, s, d)]),
     sumsq |-> SumOver(D, [d \in D |-> DailyNet(p, s, d) * DailyNet(p, s, d)]),
     actual |-> DailyNet(p, s, today - 1)]

Samples(p, s, days) == SamplesOver(p, s, SampleDates(p, s, days))

SampleCount(p, s, days) == Cardinality(SampleDates(p, s, days))

\* n * n * (the sum of squared deviations from the mean) / n: zero exactly when
\* the standard deviation of the samples is zero.
SpreadOf(b) == b.n * b.sumsq - b.sum * b.sum

Spread(p, s, days) == SpreadOf(Samples(p, s, days))

HasEvaluation(p, s) == PairRows(p, s, today - 1) # {}

\* n * (actual - mean) for the evaluation day's cost of the pair.
DeviationOf(b) == b.n * b.actual - b.sum

Deviation(p, s, days) == DeviationOf(Samples(p, s, days))

\* zScore = |actual - mean| / stddev compared with the rational c >= 0, by
\* squares: zScore^2 = Deviation^2 * (n - 1) / (n * Spread).
ZLeft(b, c) == DeviationOf(b) * DeviationOf(b) * (b.n - 1) * c.den * c.den
ZRight(b, c) == c.num * c.num * b.n * SpreadOf(b)
ZAbove(b, c) == ZLeft(b, c) > ZRight(b, c)
ZAt(b, c) == ZLeft(b, c) = ZRight(b, c)
ZGreater(p, s, days, c) == ZAbove(Samples(p, s, days), c)
ZEqual(p, s, days, c) == ZAt(Samples(p, s, days), c)

Pairs == Projects \X Services

FindingsOf(p, s) ==
    { i \in 1..Len(anomalies) :
        anomalies[i].ProjectID = p /\ anomalies[i].ServiceName = s }

Detected == call.op = "DetectAnomalies"
Forecast == call.op = "ForecastCosts"
HoldsTrends == call.op \in {"GetCostTrends", "ForecastCosts"}

\* The rows of the table that start on date d.
DateRows(d) == { r \in Rows(table) : DateOf(r.usage_start_time) = d }

---------------------------------------------------------------------------
(* Claims *)

\* C1: in every trend point, totalCost equals the sum of the values of
\* costByService and the sum of the values of costByProject.
C1_PartitionInvariant ==
    HoldsTrends =>
        \A i \in 1..Len(trends) :
            /\ MapSum(trends[i].ServiceCost) = trends[i].TotalCost
            /\ MapSum(trends[i].ProjectCost) = trends[i].TotalCost

\* C2: in every trend point, costByService[s] is the net cost of all the rows
\* of that date with service s, whatever their project, and costByProject[p]
\* the net cost of all the rows of that date with project p.
C2_BreakdownSums ==
    HoldsTrends =>
        \A i \in 1..Len(trends) :
            LET R == DateRows(trends[i].Date) IN
            /\ DOMAIN trends[i].ServiceCost = { r.service_name : r \in R }
            /\ DOMAIN trends[i].ProjectCost = { r.project_id : r \in R }
            /\ \A s \in DOMAIN trends[i].ServiceCost :
                  trends[i].ServiceCost[s] = NetOf({ r \in R : r.service_name = s })
            /\ \A q \in DOMAIN trends[i].ProjectCost :
                  trends[i].ProjectCost[q] = NetOf({ r \in R : r.project_id = q })

\* C3: when all rows are read, a pair has a finding if and only if it has a
\* cost on the evaluation day, at least 7 historical samples, a non-zero
\* standard deviation and a zScore strictly above the threshold T, and then it
\* has exactly one.
Qualifies(p, s) ==
    /\ HasEvaluation(p, s)
    /\ SampleCount(p, s, call.days) >= 7
    /\ Spread(p, s, call.days) # 0
    /\ ZGreater(p, s, call.days, call.threshold)

C3_FindingIffAboveThreshold ==
    (Detected /\ call.complete) =>
        \A pr \in Pairs :
            Cardinality(FindingsOf(pr[1], pr[2])) = IF Qualifies(pr[1], pr[2]) THEN 1 ELSE 0

\* C4: no finding is about a pair with fewer than 7 historical samples, and a
\* call whose query ran returns no error.
C4_BaselineGating ==
    Detected =>
        /\ \A i \in 1..Len(anomalies) :
              SampleCount(anomalies[i].ProjectID, anomalies[i].ServiceName, call.days) >= 7
        /\ (~call.failed => err = "")

\* A pair with 6 samples whose evaluation-day cost is above the threshold has
\* no finding, in a call that reports a pair with exactly 7 samples.
C4_Witness ==
    /\ Detected /\ call.complete /\ err = ""
    /\ \E pr \in Pairs :
          /\ SampleCount(pr[1], pr[2], call.days) = 6
          /\ HasEvaluation(pr[1], pr[2])
          /\ Spread(pr[1], pr[2], call.days) # 0
          /\ ZGreater(pr[1], pr[2], call.days, call.threshold)
          /\ FindingsOf(pr[1], pr[2]) = {}
    /\ \E i \in 1..Len(anomalies) :
          SampleCount(anomalies[i].ProjectID, anomalies[i].ServiceName, call.days) = 7

\* C5: no finding is about a pair whose historical daily costs are all equal
\* (standard deviation zero), whatever the evaluation day's cost and the
\* threshold; such a pair makes no call fail.
C5_ZeroVarianceExcluded ==
    Detected =>
        /\ \A i \in 1..Len(anomalies) :
              Spread(anomalies[i].ProjectID, anomalies[i].ServiceName, call.days) # 0
        /\ (err # "" => call.failed)

\* A pair with a baseline of equal daily costs and a different cost on the
\* evaluation day has no finding, in a call that reports another pair.
C5_Witness ==
    /\ Detected /\ call.complete /\ err = ""
    /\ \E pr \in Pairs :
          /\ SampleCount(pr[1], pr[2], call.days) >= 7
          /\ Spread(pr[1], pr[2], call.days) = 0
          /\ HasEvaluation(pr[1], pr[2])
          /\ Deviation(pr[1], pr[2], call.days) # 0
          /\ FindingsOf(pr[1], pr[2]) = {}
    /\ anomalies # <<>>

\* C6: the severity of a finding follows its zScore alone: High above 3,
\* Medium above 2 and up to 3, Low up to 2; no finding is Low when T >= 2.
C6_SeverityByZScore ==
    Detected =>
        \A i \in 1..Len(anomalies) :
            LET p == anomalies[i].ProjectID
                s == anomalies[i].ServiceName
            IN  /\ anomalies[i].Severity =
                      IF ZGreater(p, s, call.days, RatOf(3)) THEN "High"
                      ELSE IF ZGreater(p, s, call.days, RatOf(2)) THEN "Medium"
                      ELSE "Low"
                /\ (~RatLess(call.threshold, RatOf(2)) => anomalies[i].Severity # "Low")

\* A finding whose zScore is exactly 3 is Medium.
C6_Witness ==
    /\ Detected
    /\ \E i \in 1..Len(anomalies) :
          /\ ZEqual(anomalies[i].ProjectID, anomalies[i].ServiceName, call.days, RatOf(3))
          /\ anomalies[i].Severity = "Medium"

\* C7: a finding whose expected cost is zero does not report the outcome of a
\* division by zero as its deviation.
C7_NoDivideByZeroArtifact ==
    Detected =>
        \A i \in 1..Len(anomalies) :
            anomalies[i].ExpectedCost.num = 0 =>
                anomalies[i].DeviationPct \notin {PosInf, NegInf}

\* C8: every forecast total is non-negative.
C8_ForecastNeverNegative ==
    Forecast => \A k \in 1..Len(forecasts) : forecasts[k].TotalCost.num >= 0

\* C9: with at least 7 trend points and a horizon H > 0, there are exactly H
\* forecast points, the k-th dated k days after the last trend point; when all
\* rows were read, that is after every date of the table.
C9_ForecastDates ==
    (Forecast /\ err = "" /\ call.days > 0) =>
        /\ Len(trends) >= 7
        /\ Len(forecasts) = call.days
        /\ \A k \in 1..Len(forecasts) :
              /\ forecasts[k].Date = trends[Len(trends)].Date + k
              /\ call.complete =>
                    \A d \in WindowDates(HistoryDays) : d < forecasts[k].Date
        /\ \A k \in 1..(Len(forecasts) - 1) :
              forecasts[k + 1].Date = forecasts[k].Date + 1

\* A forecast of at least two days from exactly 7 trend points.
C9_Witness ==
    /\ Forecast /\ err = "" /\ call.complete
    /\ Len(trends) = 7
    /\ call.days >= 2
    /\ Len(forecasts) = call.days

\* C10: a forecast from fewer than 7 trend points is the insufficient-data
\* error and no forecast point; from 7 or more it is no error; a failed trend
\* query is returned as the error, with no forecast point.  When all rows were
\* read, the trend points are the dates of the table in the 30-day window.
C10_InsufficientData ==
    Forecast =>
        /\ (call.failed => err = "failed to execute query" /\ forecasts = <<>>)
        /\ (~call.failed =>
              /\ (Len(trends) < 7 =>
                    err = "insufficient data for forecasting" /\ forecasts = <<>>)
              /\ (Len(trends) >= 7 => err = ""))
        /\ (call.complete => Len(trends) = Cardinality(WindowDates(HistoryDays)))

\* A table with exactly 6 dates: the forecast is the insufficient-data error.
C10_Witness ==
    /\ Forecast /\ call.complete
    /\ Len(trends) = 6
    /\ Cardinality(WindowDates(HistoryDays)) = 6
    /\ err = "insufficient data for forecasting"
    /\ forecasts = <<>>

\* C11: a GetCostTrends call that read all rows returns one trend point per
\* date of the table in its window and no other, in strictly ascending date
\* order, and the same sequence as an earlier call with the same argument over
\* the same table.
C11_TrendsOrderedDeterministic ==
    (call.op = "GetCostTrends" /\ call.complete) =>
        /\ { trends[i].Date : i \in 1..Len(trends) } = WindowDates(call.days)
        /\ Len(trends) = Cardinality(WindowDates(call.days))
        /\ \A i \in 1..(Len(trends) - 1) : trends[i].Date < trends[i + 1].Date
        /\ (previous.days = call.days => trends = previous.trends)

\* C12: the expected cost of a finding is the mean of the pair's daily costs
\* on the dates of the window strictly before the evaluation day, its severity
\* follows the z-score taken with the standard deviation of those same
\* samples, and its actual cost is the net cost of exactly the pair's rows of
\* the evaluation day.
BaselineOf(a) == Samples(a.ProjectID, a.ServiceName, call.days)

FromBaseline(a, b) ==
    /\ a.Date = today - 1
    /\ b.n >= 7
    /\ a.ExpectedCost = Rat(b.sum, b.n)
    /\ a.ActualCost = b.actual
    /\ a.ActualCost = NetOf(PairRows(a.ProjectID, a.ServiceName, today - 1))
    /\ a.Severity = IF ZAbove(b, RatOf(3)) THEN "High"
                    ELSE IF ZAbove(b, RatOf(2)) THEN "Medium"
                    ELSE "Low"

C12_BaselineExcludesEvaluationDay ==
    Detected =>
        \A i \in 1..Len(anomalies) : FromBaseline(anomalies[i], BaselineOf(anomalies[i]))

\* A finding about a pair whose evaluation day has two rows and is followed by
\* a row of today.
C12_Witness ==
    /\ Detected
    /\ \E i \in 1..Len(anomalies) :
          /\ Cardinality(PairRows(anomalies[i].ProjectID, anomalies[i].ServiceName,
                                  today - 1)) = 2
          /\ PairRows(anomalies[i].ProjectID, anomalies[i].ServiceName, today) # {}
          /\ anomalies[i].ActualCost = MaxEval - 1 + RowCost

\* The trend points the forecast was made from have totals that go by the
\* constant step d.
Progression(d) ==
    /\ Forecast /\ err = ""
    /\ \A i \in 1..(Len(trends) - 1) : trends[i + 1].TotalCost - trends[i].TotalCost = d

Steps == (-(MaxStep + MaxStart))..(MaxStep + MaxStart)

LastTotal == trends[Len(trends)].TotalCost

\* C13 as stated: from 7 or more trend points whose totals go by a constant
\* step d, the k-th forecast total is the last total plus k * d.
C13_ProgressionContinuedAlways ==
    \A d \in Steps :
        Progression(d) =>
            \A k \in 1..Len(forecasts) : forecasts[k].TotalCost = RatOf(LastTotal + k * d)

\* C13: from 7 or more trend points whose totals go by a constant step d, the
\* k-th forecast total is the last total plus k * d where that is not
\* negative, and 0.9 times the last total where it is.
C13_ProgressionContinued ==
    \A d \in Steps :
        Progression(d) =>
            /\ Len(trends) >= 7
            /\ \A k \in 1..Len(forecasts) :
                  forecasts[k].TotalCost =
                      IF LastTotal + k * d >= 0 THEN RatOf(LastTotal + k * d)
                      ELSE Rat(9 * LastTotal, 10)

\* A forecast from a falling progression: its first total continues the
\* progression and a later one, where the progression turns negative, does not.
C13_Witness ==
    \E d \in Steps :
        /\ d < 0 /\ Progression(d)
        /\ Len(trends) >= 7 /\ Len(forecasts) >= 2
        /\ LastTotal > 0 /\ LastTotal + d >= 0 /\ LastTotal + 2 * d < 0
        /\ forecasts[1].TotalCost = RatOf(LastTotal + d)
        /\ forecasts[2].TotalCost = Rat(9 * LastTotal, 10)

\* The calls a handleUpdateSheets request has made so far.
UpdatingSheets == call.op = "UpdateSheets"
OpsMade == { call.ops[i] : i \in 1..Len(call.ops) }
SheetRanges == {"Trends!A1", "Anomalies!A1"}

\* C14: a request without spreadsheet_id is answered 400 with no query and no
\* sheet update made; otherwise a sheet update is made only after the trend
\* query and the anomaly query both returned without error, a failed query or
\* sheet update gives the response 500, and the response is 200 "updated" only
\* when both sheet updates have succeeded.
C14_UpdateSheetsResponses ==
    UpdatingSheets =>
        /\ call.id = "" =>
              /\ call.pc = "done" /\ response.status = 400
              /\ call.ops = <<>> /\ sheet = call.before
        /\ response.status = 400 => call.id = ""
        /\ \A i \in 1..Len(call.ops) :
              call.ops[i].op \in SheetRanges =>
                  /\ i >= 3
                  /\ call.ops[1] = Op("trends query", TRUE)
                  /\ call.ops[2] = Op("anomaly query", TRUE)
        /\ sheet # call.before => \E o \in OpsMade : o.op \in SheetRanges
        /\ (\E o \in OpsMade : ~o.ok) => call.pc = "done" /\ response.status = 500
        /\ response.status = 200 =>
              /\ response.body = "updated"
              /\ Op("Trends!A1", TRUE) \in OpsMade
              /\ Op("Anomalies!A1", TRUE) \in OpsMade
        /\ call.pc = "done" => response.status \in {200, 400, 500}
        /\ call.pc # "done" => response = NoResponse

\* A request answered 200 after writing trend rows and anomaly rows.
C14_Witness ==
    /\ UpdatingSheets /\ response.status = 200
    /\ Len(sheet.Trends) >= 2 /\ Len(sheet.Anomalies) >= 2

\* C15: the Anomalies update is made only after the Trends update succeeded;
\* when the Trends update fails an error is returned and no Anomalies update is
\* made; when the Anomalies update fails an error is returned and the Trends
\* tab holds the new values.
C15_TrendsBeforeAnomalies ==
    UpdatingSheets =>
        /\ \A i \in 1..Len(call.ops) :
              call.ops[i].op = "Anomalies!A1" =>
                  i > 1 /\ call.ops[i - 1] = Op("Trends!A1", TRUE)
        /\ Op("Trends!A1", FALSE) \in OpsMade =>
              /\ call.pc = "done" /\ err = "failed to update trends sheet"
              /\ \A o \in OpsMade : o.op # "Anomalies!A1"
              /\ sheet.Anomalies = call.before.Anomalies
        /\ Op("Anomalies!A1", FALSE) \in OpsMade =>
              /\ call.pc = "done" /\ err = "failed to update anomalies sheet"
              /\ sheet.Trends \in TrendValues(trends)

\* The Anomalies update failed and wrote nothing, and the Trends tab has been
\* overwritten with trend rows: an error is returned and the spreadsheet has
\* changed.
C15_Witness ==
    /\ UpdatingSheets /\ Op("Anomalies!A1", FALSE) \in OpsMade
    /\ err # ""
    /\ sheet.Anomalies = call.before.Anomalies
    /\ sheet.Trends # call.before.Trends
    /\ Len(call.before.Trends) >= 2 /\ Len(sheet.Trends) >= 2

\* The number of rows read of n when the iterator fails with call.unread rows
\* left.
ReadOf(n) == IF call.unread >= n THEN 0 ELSE n - call.unread

\* The k earliest dates of the window.
EarliestDates(days, k) ==
    { d \in WindowDates(days) : Cardinality({ e \in WindowDates(days) : e < d }) < k }

\* C16: GetCostTrends and DetectAnomalies return an error exactly when the
\* query fails to execute; when the row iterator fails they return the rows
\* read before it with a nil error, and ForecastCosts applies its 7-point check
\* to the trend points so read.
C16_IteratorErrorsSwallowed ==
    /\ call.op \in {"GetCostTrends", "DetectAnomalies"} => (err # "" <=> call.failed)
    /\ (call.op = "GetCostTrends" /\ ~call.failed) =>
          LET k == ReadOf(Cardinality(WindowDates(call.days)))
          IN  /\ Len(trends) = k
              /\ { trends[i].Date : i \in 1..Len(trends) } = EarliestDates(call.days, k)
    /\ (Detected /\ ~call.failed) =>
          LET found == AnomalyRows(JoinedRows(call.days), call.threshold)
          IN  /\ Len(anomalies) = ReadOf(Cardinality(found))
              /\ \A i \in 1..Len(anomalies) :
                    /\ \E row \in found : anomalies[i] = Anomaly(row)
                    /\ \A j \in 1..Len(anomalies) :
                          (anomalies[j].ProjectID = anomalies[i].ProjectID
                           /\ anomalies[j].ServiceName = anomalies[i].ServiceName) => j = i
    /\ (Forecast /\ ~call.failed) =>
          /\ Len(trends) = ReadOf(Cardinality(WindowDates(HistoryDays)))
          /\ (err # "" <=> Len(trends) < 7)
          /\ (err # "" => err = "insufficient data for forecasting")

\* A GetCostTrends call whose row iterator failed after the first rows: it
\* returns the points read, fewer than the dates of the window, and no error.
C16_Witness ==
    /\ call.op = "GetCostTrends" /\ ~call.failed /\ call.unread > 0
    /\ Len(trends) > 0
    /\ Len(trends) < Cardinality(WindowDates(call.days))
    /\ err = ""

\* A forecast refused for insufficient data over a table with 7 dates, the
\* iterator having failed before the last of them.
TruncatedForecastRefused ==
    /\ Forecast /\ ~call.failed /\ call.unread > 0
    /\ Cardinality(WindowDates(HistoryDays)) >= 7
    /\ Len(trends) < 7
    /\ err = "insufficient data for forecasting"

=============================================================================
